---- MODULE Spec2Model ----
(***************************************************************************)
(* Emoji Translator (src/emoji_translator.py).                             *)
(*                                                                         *)
(* A Python str is a sequence of Unicode codepoints (Nat).  The program    *)
(* is the demo runner of the __main__ block followed by interactive_mode;  *)
(* translate_sentence runs one while-iteration per step.  A call either    *)
(* returns a str or raises; a result is the record [exc, val] with         *)
(* exc = "" for a normal return.                                           *)
(***************************************************************************)
EXTENDS Integers, Sequences, FiniteSets

\* Longest line typed character by character over Alphabet.
MaxLen == 3
\* Most vocabulary words in a typed line.
MaxWords == 3

(***************************************************************************)
(* Characters.  The classification is Python's, on the ASCII range and on  *)
(* four non-ASCII characters: U+00C9 E-acute, U+00E9 e-acute, U+00DF sharp *)
(* s (str.upper gives "SS") and U+00B2 superscript two (str.isdigit is     *)
(* true, it is no key of DIGIT_KEYCAP).  Every other codepoint used here   *)
(* (emoji, U+FE0F, U+20E3, U+200D, U+2192) is neither alphanumeric nor     *)
(* whitespace.                                                             *)
(***************************************************************************)
MaxCodepoint == 1114111

ch_isspace(c) == c \in {9, 10, 11, 12, 13, 28, 29, 30, 31, 32, 133, 160}

ch_isalpha(c) == c \in 65..90 \/ c \in 97..122 \/ c \in {201, 223, 233}

ch_isdigit(c) == c \in 48..57 \/ c = 178

ch_isalnum(c) == ch_isalpha(c) \/ ch_isdigit(c)

\* \w of a str pattern: alphanumeric or underscore.
ch_isword(c) == ch_isalnum(c) \/ c = 95

\* str.upper of one character; the full case mapping may give two.
ch_upper(c) ==
    IF c \in 97..122 THEN <<c - 32>>
    ELSE IF c = 233 THEN <<201>>
    ELSE IF c = 223 THEN <<83, 83>>
    ELSE <<c>>

ch_lower(c) ==
    IF c \in 65..90 THEN <<c + 32>>
    ELSE IF c = 201 THEN <<233>>
    ELSE <<c>>

RECURSIVE str_upper(_)
str_upper(s) == IF s = <<>> THEN <<>> ELSE ch_upper(Head(s)) \o str_upper(Tail(s))

RECURSIVE str_lower(_)
str_lower(s) == IF s = <<>> THEN <<>> ELSE ch_lower(Head(s)) \o str_lower(Tail(s))

\* str.isalpha / str.isdigit / str.isalnum: non-empty and true of every character.
str_isalpha(s) == Len(s) > 0 /\ \A k \in 1..Len(s) : ch_isalpha(s[k])

str_isdigit(s) == Len(s) > 0 /\ \A k \in 1..Len(s) : ch_isdigit(s[k])

str_isalnum(s) == Len(s) > 0 /\ \A k \in 1..Len(s) : ch_isalnum(s[k])

\* str.strip(): leading and trailing whitespace removed.
RECURSIVE str_lstrip(_)
str_lstrip(s) ==
    IF s # <<>> /\ ch_isspace(Head(s)) THEN str_lstrip(Tail(s)) ELSE s

RECURSIVE str_rstrip(_)
str_rstrip(s) ==
    IF s # <<>> /\ ch_isspace(s[Len(s)]) THEN str_rstrip(SubSeq(s, 1, Len(s) - 1)) ELSE s

str_strip(s) == str_rstrip(str_lstrip(s))

\* sep.join(parts)
RECURSIVE str_join(_, _)
str_join(sep, parts) ==
    IF parts = <<>> THEN <<>>
    ELSE IF Len(parts) = 1 THEN parts[1]
    ELSE parts[1] \o sep \o str_join(sep, Tail(parts))

\* Length of the longest prefix of s whose characters all satisfy the class.
RECURSIVE WordRun(_)
WordRun(s) == IF s # <<>> /\ ch_isword(Head(s)) THEN 1 + WordRun(Tail(s)) ELSE 0

RECURSIVE NonSpaceRun(_)
NonSpaceRun(s) == IF s # <<>> /\ ~ch_isspace(Head(s)) THEN 1 + NonSpaceRun(Tail(s)) ELSE 0

RECURSIVE SpaceRun(_)
SpaceRun(s) == IF s # <<>> /\ ch_isspace(Head(s)) THEN 1 + SpaceRun(Tail(s)) ELSE 0

\* str.split(): split on runs of whitespace, no empty pieces.
RECURSIVE str_split(_)
str_split(s) ==
    IF s = <<>> THEN <<>>
    ELSE IF ch_isspace(Head(s)) THEN str_split(Tail(s))
    ELSE LET n == NonSpaceRun(s)
         IN  <<SubSeq(s, 1, n)>> \o str_split(SubSeq(s, n + 1, Len(s)))

\* TOKEN_RE.findall had the pattern been \S+: tokens are the whitespace-separated pieces.
TOKEN_RE_findall_whitespace(s) == str_split(s)

\* TOKEN_RE.findall: a maximal run of \w, or one character that is neither
\* \w nor whitespace; whitespace gives no token.
RECURSIVE TOKEN_RE_findall(_)
TOKEN_RE_findall(s) ==
    IF s = <<>> THEN <<>>
    ELSE IF ch_isword(Head(s))
         THEN LET n == WordRun(s)
              IN  <<SubSeq(s, 1, n)>> \o TOKEN_RE_findall(SubSeq(s, n + 1, Len(s)))
    ELSE IF ~ch_isspace(Head(s))
         THEN <<<<Head(s)>>>> \o TOKEN_RE_findall(Tail(s))
    ELSE TOKEN_RE_findall(Tail(s))

\* The class without the comma.
PunctClass_no_comma == {63, 46, 33, 58, 59}

\* The character class [?.!,:;] of the spacing pattern.
PunctClass == {63, 46, 33, 44, 58, 59}

\* re.sub(r'\s+([?.!,:;])', r'\1', out): a whitespace run is dropped exactly
\* when the character right after the whole run is in the class.
RECURSIVE re_sub_space_punct(_)
re_sub_space_punct(s) ==
    IF s = <<>> THEN <<>>
    ELSE IF ch_isspace(Head(s))
         THEN LET n == SpaceRun(s)
              IN  IF n < Len(s) /\ s[n + 1] \in PunctClass
                  THEN re_sub_space_punct(SubSeq(s, n + 1, Len(s)))
                  ELSE SubSeq(s, 1, n) \o re_sub_space_punct(SubSeq(s, n + 1, Len(s)))
    ELSE <<Head(s)>> \o re_sub_space_punct(Tail(s))

\* s[1..Len(p)] = p
StartsWith(s, p) == Len(p) <= Len(s) /\ SubSeq(s, 1, Len(p)) = p

\* re.sub(re.escape(phrase), repl, s, flags=re.IGNORECASE) on an already
\* lowercased s: leftmost non-overlapping occurrences of the literal.
RECURSIVE re_sub_literal(_, _, _)
re_sub_literal(pat, repl, s) ==
    IF s = <<>> THEN <<>>
    ELSE IF pat # <<>> /\ StartsWith(str_lower(s), pat)
         THEN repl \o re_sub_literal(pat, repl, SubSeq(s, Len(pat) + 1, Len(s)))
    ELSE <<Head(s)>> \o re_sub_literal(pat, repl, Tail(s))

(***************************************************************************)
(* The module-level tables.  A dict is the sequence of its items in        *)
(* insertion order, which is the order a for loop iterates it in.          *)
(***************************************************************************)
\* WORD_EMOJI: the word -> emoji dict literal, in insertion order ("i", "me", "you", "love", ... "ok").
WORD_EMOJI_literal ==
    << [key |-> <<105>>, emoji |-> <<128065, 65039>>],
       [key |-> <<109, 101>>, emoji |-> <<128587>>],
       [key |-> <<121, 111, 117>>, emoji |-> <<129781>>],
       [key |-> <<108, 111, 118, 101>>, emoji |-> <<10084, 65039>>],
       [key |-> <<108, 105, 107, 101>>, emoji |-> <<128077>>],
       [key |-> <<104, 97, 116, 101>>, emoji |-> <<128148>>],
       [key |-> <<104, 97, 112, 112, 121>>, emoji |-> <<128516>>],
       [key |-> <<115, 97, 100>>, emoji |-> <<128546>>],
       [key |-> <<112, 105, 122, 122, 97>>, emoji |-> <<127829>>],
       [key |-> <<99, 111, 102, 102, 101, 101>>, emoji |-> <<9749>>],
       [key |-> <<116, 101, 97>>, emoji |-> <<127861>>],
       [key |-> <<99, 97, 116>>, emoji |-> <<128049>>],
       [key |-> <<100, 111, 103>>, emoji |-> <<128054>>],
       [key |-> <<109, 111, 110, 101, 121>>, emoji |-> <<128176>>],
       [key |-> <<112, 97, 114, 116, 121>>, emoji |-> <<127881>>],
       [key |-> <<100, 97, 110, 99, 101>>, emoji |-> <<128131>>],
       [key |-> <<115, 108, 101, 101, 112>>, emoji |-> <<128564>>],
       [key |-> <<109, 117, 115, 105, 99>>, emoji |-> <<127925>>],
       [key |-> <<102, 105, 114, 101>>, emoji |-> <<128293>>],
       [key |-> <<115, 116, 97, 114>>, emoji |-> <<11088>>],
       [key |-> <<109, 111, 111, 110>>, emoji |-> <<127769>>],
       [key |-> <<115, 117, 110>>, emoji |-> <<9728, 65039>>],
       [key |-> <<112, 104, 111, 110, 101>>, emoji |-> <<128241>>],
       [key |-> <<99, 111, 109, 112, 117, 116, 101, 114>>, emoji |-> <<128187>>],
       [key |-> <<99, 111, 100, 101>>, emoji |-> <<128187>>],
       [key |-> <<115, 116, 117, 100, 121>>, emoji |-> <<128218>>],
       [key |-> <<98, 111, 111, 107>>, emoji |-> <<128214>>],
       [key |-> <<99, 97, 114>>, emoji |-> <<128663>>],
       [key |-> <<98, 105, 107, 101>>, emoji |-> <<128690>>],
       [key |-> <<119, 111, 114, 107>>, emoji |-> <<127970>>],
       [key |-> <<121, 101, 115>>, emoji |-> <<9989>>],
       [key |-> <<110, 111>>, emoji |-> <<10060>>],
       [key |-> <<109, 97, 121, 98, 101>>, emoji |-> <<129335>>],
       [key |-> <<104, 101, 108, 108, 111>>, emoji |-> <<128075>>],
       [key |-> <<104, 105>>, emoji |-> <<128075>>],
       [key |-> <<98, 121, 101>>, emoji |-> <<128075>>],
       [key |-> <<116, 104, 97, 110, 107, 115>>, emoji |-> <<128591>>],
       [key |-> <<116, 104, 97, 110, 107>>, emoji |-> <<128591>>],
       [key |-> <<119, 111, 119>>, emoji |-> <<128562>>],
       [key |-> <<119, 104, 97, 116>>, emoji |-> <<10067>>],
       [key |-> <<119, 104, 121>>, emoji |-> <<10067>>],
       [key |-> <<119, 104, 111>>, emoji |-> <<128100>>],
       [key |-> <<119, 104, 101, 114, 101>>, emoji |-> <<128205>>],
       [key |-> <<119, 104, 101, 110>>, emoji |-> <<9200>>],
       [key |-> <<111, 107>>, emoji |-> <<128076>>] >>

\* PHRASE_EMOJI: "i love you", "good night", "good morning", "i am", "happy birthday", in insertion order.
PHRASE_EMOJI_literal ==
    << [key |-> <<105, 32, 108, 111, 118, 101, 32, 121, 111, 117>>, emoji |-> <<10084, 65039, 128139>>],
       [key |-> <<103, 111, 111, 100, 32, 110, 105, 103, 104, 116>>, emoji |-> <<127769, 128564>>],
       [key |-> <<103, 111, 111, 100, 32, 109, 111, 114, 110, 105, 110, 103>>, emoji |-> <<9728, 65039, 127749>>],
       [key |-> <<105, 32, 97, 109>>, emoji |-> <<128587, 8205, 9794, 65039, 32, 105, 115>>],
       [key |-> <<104, 97, 112, 112, 121, 32, 98, 105, 114, 116, 104, 100, 97, 121>>, emoji |-> <<127874, 127881>>] >>

\* DIGIT_KEYCAP: '0'..'9' -> digit, U+FE0F, U+20E3.
DIGIT_KEYCAP_literal ==
    << [key |-> <<48>>, emoji |-> <<48, 65039, 8419>>],
       [key |-> <<49>>, emoji |-> <<49, 65039, 8419>>],
       [key |-> <<50>>, emoji |-> <<50, 65039, 8419>>],
       [key |-> <<51>>, emoji |-> <<51, 65039, 8419>>],
       [key |-> <<52>>, emoji |-> <<52, 65039, 8419>>],
       [key |-> <<53>>, emoji |-> <<53, 65039, 8419>>],
       [key |-> <<54>>, emoji |-> <<54, 65039, 8419>>],
       [key |-> <<55>>, emoji |-> <<55, 65039, 8419>>],
       [key |-> <<56>>, emoji |-> <<56, 65039, 8419>>],
       [key |-> <<57>>, emoji |-> <<57, 65039, 8419>>] >>

\* ord('\U0001F1E6'), REGIONAL INDICATOR SYMBOL LETTER A.
base == 127462

\* The examples list of the __main__ block.
examples ==
    << <<73, 32, 108, 111, 118, 101, 32, 112, 105, 122, 122, 97, 33>>,
       <<71, 111, 111, 100, 32, 110, 105, 103, 104, 116, 44, 32, 115, 108, 101,
         101, 112, 121, 32, 99, 97, 116, 46>>,
       <<72, 101, 108, 108, 111, 44, 32, 99, 97, 110, 32, 121, 111, 117, 32, 99,
         97, 108, 108, 32, 109, 101, 32, 97, 116, 32, 49, 50, 51, 52, 53, 63>>,
       <<68, 111, 32, 121, 111, 117, 32, 108, 105, 107, 101, 32, 99, 111, 102,
         102, 101, 101, 32, 111, 114, 32, 116, 101, 97, 63>>,
       <<68, 97, 110, 99, 101, 32, 112, 97, 114, 116, 121, 33>> >>

\* ("quit", "exit")
QuitWords == { <<113, 117, 105, 116>>, <<101, 120, 105, 116>> }

\* "bye" + " " + U+1F44B, and the same after a newline.
FarewellLine == <<98, 121, 101, 32, 128075>>
FarewellAfterNewline == <<10>> \o FarewellLine

\* "\nEnter sentence: "
PromptText == <<10, 69, 110, 116, 101, 114, 32, 115, 101, 110, 116, 101, 110, 99, 101, 58, 32>>

\* U+2192 RIGHTWARDS ARROW, the first argument of the result print.
ArrowText == <<8594>>

\* " -> " of the demo f-string.
DemoArrow == <<32, 45, 62, 32>>

(***************************************************************************)
(* Lines the user can type: every string over Alphabet up to MaxLen, every *)
(* line of up to MaxWords vocabulary words separated by one space, every   *)
(* upper/lower-case spelling of every WORD_EMOJI key, and the commands.    *)
(***************************************************************************)
\* a A 1 space ! _ sharp-s e-acute superscript-two
Alphabet == {97, 65, 49, 32, 33, 95, 223, 233, 178}

\* I love you am Good night ! ,
Vocabulary ==
    { <<73>>, <<108, 111, 118, 101>>, <<121, 111, 117>>, <<97, 109>>,
      <<71, 111, 111, 100>>, <<110, 105, 103, 104, 116>>, <<33>>, <<44>> }

SeqsUpTo(S, n) == UNION { [1..m -> S] : m \in 0..n }

CharLines == SeqsUpTo(Alphabet, MaxLen)

WordLines == { str_join(<<32>>, ws) : ws \in SeqsUpTo(Vocabulary, MaxWords) }

\* The spellings of w that differ from it only in the case of ASCII letters.
RECURSIVE CaseVariants(_)
CaseVariants(w) ==
    IF w = <<>> THEN { <<>> }
    ELSE LET c == Head(w)
             cs == IF c \in 97..122 THEN {c, c - 32} ELSE {c}
         IN  { <<d>> \o r : d \in cs, r \in CaseVariants(Tail(w)) }

KeyLines == UNION { CaseVariants(WORD_EMOJI_literal[k].key) : k \in 1..Len(WORD_EMOJI_literal) }

\* quit, EXIT, Exit (with a trailing space)
CommandLines ==
    { <<113, 117, 105, 116>>, <<69, 88, 73, 84>>, <<69, 120, 105, 116, 32>> }

Lines == CharLines \cup WordLines \cup KeyLines \cup CommandLines

\* Sentences whose result is remembered across calls.
ProbeInputs ==
    { examples[1], <<233>>, <<73, 32, 97, 109>>, <<71, 111, 111, 100, 32, 110, 105, 103, 104, 116, 32, 33>> }

VARIABLES
    pc,            \* position of the program
    caller,        \* "demo" (the __main__ block) or "interactive" (interactive_mode)
    ex,            \* number of examples the demo loop has finished
    text,          \* interactive_mode: the stripped line
    sentence,      \* translate_sentence: the argument
    lowered,       \* translate_sentence: the lowered copy after the phrase pre-pass
    tokens,        \* translate_sentence: TOKEN_RE.findall(sentence)
    i,             \* translate_sentence: the cursor
    translated,    \* translate_sentence: the output list
    out,           \* translate_sentence: the returned string
    exc,           \* the exception that ended the program, "" if none
    stdout,        \* the last line written: [kind, body]
    probe,         \* history: a remembered earlier call [set, s, r]
    WORD_EMOJI,    \* the module globals
    PHRASE_EMOJI,
    DIGIT_KEYCAP

vars == <<pc, caller, ex, text, sentence, lowered, tokens, i, translated, out,
          exc, stdout, probe, WORD_EMOJI, PHRASE_EMOJI, DIGIT_KEYCAP>>

frame == <<sentence, lowered, tokens, i, translated>>

tables == <<WORD_EMOJI, PHRASE_EMOJI, DIGIT_KEYCAP>>

\* A call's outcome: a returned str, or a raised exception.
Ok(v) == [exc |-> "", val |-> v]

Raise(e) == [exc |-> e, val |-> <<>>]

\* key in d
DictHas(d, key) == \E k \in 1..Len(d) : d[k].key = key

\* d[key], for a key of d
DictAt(d, key) == d[CHOOSE k \in 1..Len(d) : d[k].key = key].emoji

\* d.get(key, default)
DictGet(d, key, default) == IF DictHas(d, key) THEN DictAt(d, key) ELSE default

\* d.keys() as a list
RECURSIVE DictKeys(_)
DictKeys(d) == IF d = <<>> THEN <<>> ELSE <<Head(d).key>> \o DictKeys(Tail(d))

\* sorted(keys, key=len, reverse=True): stable, longest first.
RECURSIVE InsertByLen(_, _)
InsertByLen(sorted, x) ==
    IF sorted = <<>> THEN <<x>>
    ELSE IF Len(Head(sorted)) >= Len(x) THEN <<Head(sorted)>> \o InsertByLen(Tail(sorted), x)
    ELSE <<x>> \o sorted

RECURSIVE sorted_by_len_reverse(_)
sorted_by_len_reverse(keys) ==
    IF keys = <<>> THEN <<>>
    ELSE InsertByLen(sorted_by_len_reverse(SubSeq(keys, 1, Len(keys) - 1)), keys[Len(keys)])

\* letter_to_regional(letter)
letter_to_regional(letter) ==
    IF ~str_isalpha(letter) THEN Ok(letter)
    ELSE LET up == str_upper(letter)
         IN  IF Len(up) # 1 THEN Raise("TypeError")     \* ord() of a longer str
             ELSE LET cp == base + (up[1] - 65)
                  IN  IF cp < 0 \/ cp > MaxCodepoint THEN Raise("ValueError")   \* chr() out of range
                      ELSE Ok(<<cp>>)

\* "".join(DIGIT_KEYCAP.get(d, d) for d in token)
RECURSIVE join_keycaps(_)
join_keycaps(token) ==
    IF token = <<>> THEN <<>>
    ELSE DictGet(DIGIT_KEYCAP, <<Head(token)>>, <<Head(token)>>) \o join_keycaps(Tail(token))

\* The per-character fallback loop of translate_token and its final join.
RECURSIVE translate_letters(_)
translate_letters(token) ==
    IF token = <<>> THEN Ok(<<>>)
    ELSE LET ch == <<Head(token)>>
             piece == IF str_isalpha(ch) THEN letter_to_regional(ch)
                      ELSE IF str_isdigit(ch) THEN Ok(DictGet(DIGIT_KEYCAP, ch, ch))
                      ELSE Ok(ch)
         IN  IF piece.exc # "" THEN piece
             ELSE LET rest == translate_letters(Tail(token))
                  IN  IF rest.exc # "" THEN rest ELSE Ok(piece.val \o rest.val)

\* translate_token looking the token up without lowercasing it.
translate_token_case_sensitive(token) ==
    IF DictHas(WORD_EMOJI, token) THEN Ok(DictAt(WORD_EMOJI, token))
    ELSE IF str_isdigit(token) THEN Ok(join_keycaps(token))
    ELSE IF Len(token) = 1 /\ str_isalpha(token) THEN letter_to_regional(token)
    ELSE translate_letters(token)

\* translate_token(token)
translate_token(token) ==
    LET lower == str_lower(token)
    IN  IF DictHas(WORD_EMOJI, lower) THEN Ok(DictAt(WORD_EMOJI, lower))
        ELSE IF str_isdigit(token) THEN Ok(join_keycaps(token))
        ELSE IF Len(token) = 1 /\ str_isalpha(token) THEN letter_to_regional(token)
        ELSE translate_letters(token)

\* The phrase pre-pass on the lowered copy, phrases longest first.
RECURSIVE phrase_prepass(_, _)
phrase_prepass(keys, s) ==
    IF keys = <<>> THEN s
    ELSE phrase_prepass(Tail(keys), re_sub_literal(Head(keys), DictAt(PHRASE_EMOJI, Head(keys)), s))

\* The candidate built from the tokens as typed, not lowercased.
candidate_at_as_typed(toks, pos, L) ==
    str_join(<<32>>, [t \in 1..L |-> toks[pos + t]])

\* tokens[i:i+L] lowercased and joined by spaces (i counts from 0).
candidate_at(toks, pos, L) ==
    str_join(<<32>>, [t \in 1..L |-> str_lower(toks[pos + t])])

\* The for loop over PHRASE_EMOJI from its k-th item on; acc is
\* [matched_phrase, max_phrase_len], matched_phrase = <<>> standing for None.
RECURSIVE phrase_loop(_, _, _, _)
phrase_loop(toks, pos, k, acc) ==
    IF k > Len(PHRASE_EMOJI) THEN acc
    ELSE LET phrase == PHRASE_EMOJI[k].key
             L == Len(str_split(phrase))
             hit == /\ pos + L <= Len(toks)
                    /\ candidate_at(toks, pos, L) = phrase
                    /\ L > acc.max_phrase_len
         IN  phrase_loop(toks, pos, k + 1,
                         IF hit THEN [matched_phrase |-> phrase, max_phrase_len |-> L] ELSE acc)

match_phrase(toks, pos) ==
    phrase_loop(toks, pos, 1, [matched_phrase |-> <<>>, max_phrase_len |-> 0])

(***************************************************************************)
(* The program.                                                            *)
(*   pc = "demo"      the for loop over examples, between two calls        *)
(*        "prompt"    interactive_mode about to call input()               *)
(*        "input"     input() has written the prompt and waits for a line  *)
(*        "dispatch"  the line is read and stripped                        *)
(*        "scan"      translate_sentence at the head of its while loop     *)
(*        "print"     translate_sentence has returned out to the caller    *)
(*        "done"      interactive_mode has returned, the program exits     *)
(*        "crashed"   an exception nobody catches ended the program        *)
(***************************************************************************)
NoFrame ==
    /\ sentence = <<>>
    /\ lowered = <<>>
    /\ tokens = <<>>
    /\ i = 0
    /\ translated = <<>>

NoProbe == [set |-> FALSE, s |-> <<>>, r |-> <<>>]

Init ==
    /\ pc = "demo"
    /\ caller = "demo"
    /\ ex = 0
    /\ text = <<>>
    /\ NoFrame
    /\ out = <<>>
    /\ exc = ""
    /\ stdout = [kind |-> "header", body |-> <<>>]
    /\ probe = NoProbe
    /\ WORD_EMOJI = WORD_EMOJI_literal
    /\ PHRASE_EMOJI = PHRASE_EMOJI_literal
    /\ DIGIT_KEYCAP = DIGIT_KEYCAP_literal

\* translate_sentence(s) from its first line to the head of the while loop.
Call(s) ==
    /\ sentence' = s
    /\ lowered' = phrase_prepass(sorted_by_len_reverse(DictKeys(PHRASE_EMOJI)), str_lower(s))
    /\ tokens' = TOKEN_RE_findall(s)
    /\ translated' = <<>>
    /\ i' = 0
    /\ pc' = "scan"

\* for ex in examples: ... translate_sentence(ex)
DemoCall ==
    /\ pc = "demo"
    /\ ex < Len(examples)
    /\ Call(examples[ex + 1])
    /\ UNCHANGED <<caller, ex, text, out, exc, stdout, probe, tables>>

\* The demo loop is over: the separator line, then interactive_mode() and its banner.
DemoEnd ==
    /\ pc = "demo"
    /\ ex = Len(examples)
    /\ caller' = "interactive"
    /\ stdout' = [kind |-> "header", body |-> <<>>]
    /\ pc' = "prompt"
    /\ UNCHANGED <<ex, text, frame, out, exc, probe, tables>>

\* input("\nEnter sentence: ") writes its prompt and blocks.
Prompt ==
    /\ pc = "prompt"
    /\ stdout' = [kind |-> "prompt", body |-> PromptText]
    /\ pc' = "input"
    /\ UNCHANGED <<caller, ex, text, frame, out, exc, probe, tables>>

\* input() returns a line; .strip()
Input ==
    /\ pc = "input"
    /\ \E line \in Lines : text' = str_strip(line)
    /\ pc' = "dispatch"
    /\ UNCHANGED <<caller, ex, frame, out, exc, stdout, probe, tables>>

\* except (EOFError, KeyboardInterrupt): the farewell, break.
InputEnd ==
    /\ pc \in {"prompt", "input"}
    /\ stdout' = [kind |-> "farewell", body |-> FarewellAfterNewline]
    /\ pc' = "done"
    /\ UNCHANGED <<caller, ex, text, frame, out, exc, probe, tables>>

\* if not text: continue
Blank ==
    /\ pc = "dispatch"
    /\ text = <<>>
    /\ pc' = "prompt"
    /\ UNCHANGED <<caller, ex, text, frame, out, exc, stdout, probe, tables>>

\* if text.lower() in ("quit", "exit"): the farewell, break.
Quit ==
    /\ pc = "dispatch"
    /\ text # <<>>
    /\ str_lower(text) \in QuitWords
    /\ stdout' = [kind |-> "farewell", body |-> FarewellLine]
    /\ pc' = "done"
    /\ UNCHANGED <<caller, ex, text, frame, out, exc, probe, tables>>

\* ... translate_sentence(text)
Translate ==
    /\ pc = "dispatch"
    /\ text # <<>>
    /\ str_lower(text) \notin QuitWords
    /\ Call(text)
    /\ UNCHANGED <<caller, ex, text, out, exc, stdout, probe, tables>>

\* One iteration of the while loop of translate_sentence.  An exception of
\* translate_token is caught by neither caller and ends the program.
LoopIter ==
    /\ pc = "scan"
    /\ i < Len(tokens)
    /\ LET tok == tokens[i + 1]
           m == match_phrase(tokens, i)
       IN  IF m.matched_phrase # <<>>
           THEN /\ translated' = Append(translated, DictAt(PHRASE_EMOJI, m.matched_phrase))
                /\ i' = i + m.max_phrase_len
                /\ UNCHANGED <<pc, exc>>
           ELSE LET t == IF \/ str_isalpha(tok)
                               \/ str_isdigit(tok)
                               \/ (Len(tok) = 1 /\ ~str_isalnum(tok))
                            THEN translate_token(tok)
                            ELSE translate_token(tok)   \* both branches make the same call
                IN  IF t.exc # ""
                    THEN /\ exc' = t.exc
                         /\ pc' = "crashed"
                         /\ UNCHANGED <<i, translated>>
                    ELSE /\ translated' = Append(translated, t.val)
                         /\ i' = i + 1
                         /\ UNCHANGED <<pc, exc>>
    /\ UNCHANGED <<caller, ex, text, sentence, lowered, tokens, out, stdout, probe, tables>>

\* Return that also stores the result in WORD_EMOJI under the lowered sentence.
Return_caching ==
    /\ pc = "scan"
    /\ i >= Len(tokens)
    /\ out' = re_sub_space_punct(str_join(<<32>>, translated))
    /\ WORD_EMOJI' = Append(WORD_EMOJI, [key |-> str_lower(sentence), emoji |-> out'])
    /\ pc' = "print"
    /\ UNCHANGED <<caller, ex, text, frame, exc, stdout, probe, PHRASE_EMOJI, DIGIT_KEYCAP>>

\* The loop is over: join, the spacing substitution, return out.
Return ==
    /\ pc = "scan"
    /\ i >= Len(tokens)
    /\ out' = re_sub_space_punct(str_join(<<32>>, translated))
    /\ pc' = "print"
    /\ UNCHANGED <<caller, ex, text, frame, exc, stdout, probe, tables>>

\* The caller has the result; a call on one of ProbeInputs may be remembered.
Remember ==
    \/ probe' = probe
    \/ /\ sentence \in ProbeInputs
       /\ probe' = [set |-> TRUE, s |-> sentence, r |-> out]

\* print(f"{ex} -> {translate_sentence(ex)}"), next example; the frame of
\* the call is gone.
DemoWrite ==
    /\ pc = "print"
    /\ caller = "demo"
    /\ stdout' = [kind |-> "demo", body |-> sentence \o DemoArrow \o out]
    /\ ex' = ex + 1
    /\ pc' = "demo"
    /\ sentence' = <<>> /\ lowered' = <<>> /\ tokens' = <<>> /\ i' = 0 /\ translated' = <<>>
    /\ out' = <<>>
    /\ Remember
    /\ UNCHANGED <<caller, text, exc, tables>>

\* print("→", translate_sentence(text)), back to the head of the while True.
\* The frame of the call is gone and text is not read again before input()
\* assigns it, so both are cleared here.
WriteResult ==
    /\ pc = "print"
    /\ caller = "interactive"
    /\ stdout' = [kind |-> "result", body |-> ArrowText \o <<32>> \o out]
    /\ pc' = "prompt"
    /\ sentence' = <<>> /\ lowered' = <<>> /\ tokens' = <<>> /\ i' = 0 /\ translated' = <<>>
    /\ out' = <<>>
    /\ text' = <<>>
    /\ Remember
    /\ UNCHANGED <<caller, ex, exc, tables>>

\* A KeyboardInterrupt delivered outside the try block of interactive_mode.
Interrupt ==
    /\ pc \in {"demo", "dispatch", "scan", "print"}
    /\ exc' = "KeyboardInterrupt"
    /\ pc' = "crashed"
    /\ UNCHANGED <<caller, ex, text, frame, out, stdout, probe, tables>>

Next ==
    \/ DemoCall
    \/ DemoEnd
    \/ Prompt
    \/ Input
    \/ InputEnd
    \/ Blank
    \/ Quit
    \/ Translate
    \/ LoopIter
    \/ Return
    \/ DemoWrite
    \/ WriteResult
    \/ Interrupt

Spec == Init /\ [][Next]_vars


(***************************************************************************)
(* Properties.                                                             *)
(***************************************************************************)
\* A call to translate_sentence raised.
Raised == pc = "crashed" /\ exc \in {"TypeError", "ValueError"}

\* A call to translate_sentence is over: it returned, or it raised.
CallOver == pc = "print" \/ Raised

RegionalRange == base..(base + 25)

CharsOf(s) == { s[k] : k \in 1..Len(s) }

\* C1: translate_sentence returns a string for every input; no call ever
\* ends by raising an exception.
C1_NeverRaises == ~Raised

\* C2: translate_sentence of a word-table key, in any upper/lower-case
\* spelling, returns exactly that key's emoji.
IsCaseVariant(s, w) ==
    /\ Len(s) = Len(w)
    /\ \A k \in 1..Len(w) : s[k] = w[k] \/ (w[k] \in 97..122 /\ s[k] = w[k] - 32)

C2_WordTable ==
    CallOver =>
        \A k \in 1..Len(WORD_EMOJI_literal) :
            IsCaseVariant(sentence, WORD_EMOJI_literal[k].key)
                => pc = "print" /\ out = WORD_EMOJI_literal[k].emoji

\* "LoVE" was translated to the emoji of "love".
C2_Witness ==
    /\ pc = "print"
    /\ caller = "interactive"
    /\ sentence = <<76, 111, 86, 69>>
    /\ out = <<10084, 65039>>

\* C3: when phrases match the tokens at the cursor, the iteration appends the
\* emoji of a matching phrase of greatest token count and advances the cursor
\* by that count; only when none matches is the single token translated.
PhraseWords(k) == str_split(PHRASE_EMOJI_literal[k].key)

Matching(toks, pos) ==
    { k \in 1..Len(PHRASE_EMOJI_literal) :
        /\ pos + Len(PhraseWords(k)) <= Len(toks)
        /\ \A t \in 1..Len(PhraseWords(k)) : str_lower(toks[pos + t]) = PhraseWords(k)[t] }

C3_Iteration ==
    (pc = "scan" /\ i < Len(tokens) /\ exc' # "KeyboardInterrupt") =>
        LET M == Matching(tokens, i)
        IN  IF M # {}
            THEN \E k \in M :
                    /\ \A j \in M : Len(PhraseWords(j)) <= Len(PhraseWords(k))
                    /\ translated' = Append(translated, PHRASE_EMOJI_literal[k].emoji)
                    /\ i' = i + Len(PhraseWords(k))
                    /\ pc' = "scan"
            ELSE \/ Raised'
                 \/ /\ translated' = Append(translated, translate_token(tokens[i + 1]).val)
                    /\ i' = i + 1

C3_PhrasePrecedence == [][C3_Iteration]_vars

\* "Good night" at the start of a line became one element, the phrase's emoji.
C3_Witness ==
    /\ pc = "scan"
    /\ caller = "interactive"
    /\ i = 2
    /\ Len(tokens) >= 2
    /\ tokens[1] = <<71, 111, 111, 100>>
    /\ tokens[2] = <<110, 105, 103, 104, 116>>
    /\ translated = << <<127769, 128564>> >>

\* C4 as stated: "I love pizza!" gives tokens [I, love, pizza, !], the
\* regional indicator of I, the emoji of love and of pizza, then "!" with
\* no space before it.
TokensOfExample1 ==
    << <<73>>, <<108, 111, 118, 101>>, <<112, 105, 122, 122, 97>>, <<33>> >>

C4_Original ==
    (pc = "print" /\ sentence = examples[1]) =>
        /\ tokens = TokensOfExample1
        /\ out = <<base + 8, 32, 10084, 65039, 32, 127829, 33>>

\* C4 as amended: "I" is a word-table key, so the first element is the
\* emoji WORD_EMOJI["i"]; the rest is as stated.
C4_Amended ==
    (pc \in {"scan", "print"} /\ sentence = examples[1]) =>
        /\ tokens = TokensOfExample1
        /\ Matching(tokens, 0) = {}
        /\ translated = SubSeq(<< <<128065, 65039>>, <<10084, 65039>>, <<127829>>, <<33>> >>, 1, i)
        /\ pc = "print" => out = <<128065, 65039, 32, 10084, 65039, 32, 127829, 33>>

C4_Witness ==
    /\ pc = "print"
    /\ caller = "demo"
    /\ sentence = examples[1]
    /\ Len(translated) = 4

\* C5: the returned string has no whitespace right before ? . ! , : ; and is
\* otherwise the output list joined by single spaces: a space separates two
\* adjacent elements exactly when the second does not start with one of those
\* characters, and nothing else is added or removed.
RECURSIVE JoinTight(_)
JoinTight(parts) ==
    IF parts = <<>> THEN <<>>
    ELSE IF Len(parts) = 1 THEN parts[1]
    ELSE parts[1]
         \o (IF parts[2] # <<>> /\ parts[2][1] \in {63, 46, 33, 44, 58, 59} THEN <<>> ELSE <<32>>)
         \o JoinTight(Tail(parts))

C5_Spacing ==
    pc = "print" =>
        /\ \A k \in 1..(Len(out) - 1) :
              ~(ch_isspace(out[k]) /\ out[k + 1] \in {63, 46, 33, 44, 58, 59})
        /\ out = JoinTight(translated)

\* A comma followed a word: the joining space before the comma was removed.
C5_Witness ==
    /\ pc = "print"
    /\ Len(translated) >= 2
    /\ translated[2] = <<44>>
    /\ Len(out) < Len(str_join(<<32>>, translated))

\* C6: a blank line causes no call and no output; quit/exit writes the farewell
\* and ends the loop without a call; any other line is translated once and
\* its result written before the next read; and the loop only ever ends with
\* the farewell written, whenever end-of-input or an interrupt arrives.
C6_Step ==
    caller = "interactive" =>
        /\ (pc = "dispatch" /\ text = <<>>)
              => pc' = "done" \/ (pc' = "prompt" /\ stdout' = stdout /\ NoFrame')
        /\ (pc = "dispatch" /\ str_lower(text) \in QuitWords)
              => pc' = "done" /\ NoFrame'
        /\ (pc = "dispatch" /\ text # <<>> /\ str_lower(text) \notin QuitWords)
              => pc' = "done" \/ (pc' = "scan" /\ sentence' = text)
        /\ pc = "scan" => pc' \in {"scan", "print", "done"}
        /\ pc = "print"
              => pc' = "done" \/ (pc' = "prompt" /\ stdout' = [kind |-> "result", body |-> <<8594, 32>> \o out])
        /\ pc' \in {"done", "crashed"} => pc' = "done" /\ stdout'.kind = "farewell"

C6_InteractiveLoop == [][C6_Step]_vars

\* C7: no call changes the tables, and a call returns what an earlier call
\* on the same sentence returned, whatever calls came between.
C7_Pure ==
    /\ WORD_EMOJI = WORD_EMOJI_literal
    /\ PHRASE_EMOJI = PHRASE_EMOJI_literal
    /\ DIGIT_KEYCAP = DIGIT_KEYCAP_literal
    /\ (pc = "print" /\ probe.set /\ probe.s = sentence) => out = probe.r

\* "I am" is translated in interactive mode after an earlier call on it.
C7_Witness ==
    /\ pc = "print"
    /\ caller = "interactive"
    /\ probe.set
    /\ probe.s = sentence
    /\ sentence = <<73, 32, 97, 109>>

\* C8: letter_to_regional maps every alphabetic character to the one
\* regional indicator base + (uppercase(c) - 'A'), inside the 26-symbol
\* range and the same for both cases, and returns any other character
\* unchanged.
C8_LetterOK(c) ==
    LET r == letter_to_regional(<<c>>)
    IN  IF ch_isalpha(c)
        THEN /\ r.exc = ""
             /\ Len(str_upper(<<c>>)) = 1
             /\ r.val = <<base + (str_upper(<<c>>)[1] - 65)>>
             /\ r.val[1] \in RegionalRange
             /\ letter_to_regional(str_upper(<<c>>)) = r
             /\ letter_to_regional(str_lower(<<c>>)) = r
        ELSE r = Ok(<<c>>)

C8_RegionalTotal == \A c \in CharsOf(text) \cup CharsOf(sentence) : C8_LetterOK(c)

\* C9: translate_token gives the word-table emoji when the lowercased token
\* is a key; otherwise one piece per character in order, a regional indicator
\* for a letter, the keycap emoji for a digit, the character itself for
\* anything else.
C9_PieceOK(c, p) ==
    IF ch_isalpha(c) THEN Len(p) = 1 /\ p[1] \in RegionalRange
    ELSE IF ch_isdigit(c)
         THEN DictHas(DIGIT_KEYCAP_literal, <<c>>) /\ p = DictAt(DIGIT_KEYCAP_literal, <<c>>)
    ELSE p = <<c>>

RECURSIVE C9_Concat(_)
C9_Concat(pieces) == IF pieces = <<>> THEN <<>> ELSE Head(pieces) \o C9_Concat(Tail(pieces))

C9_TokenOK(token) ==
    LET r == translate_token(token)
        lower == str_lower(token)
        pieces == [k \in 1..Len(token) |-> translate_letters(<<token[k]>>)]
    IN  IF DictHas(WORD_EMOJI_literal, lower) THEN r = Ok(DictAt(WORD_EMOJI_literal, lower))
        ELSE /\ r.exc = ""
             /\ \A k \in 1..Len(token) : pieces[k].exc = "" /\ C9_PieceOK(token[k], pieces[k].val)
             /\ r.val = C9_Concat([k \in 1..Len(token) |-> pieces[k].val])

C9_ResolutionOrder == \A k \in 1..Len(tokens) : C9_TokenOK(tokens[k])

\* C10: the cursor stays within 0..len(tokens), the token list is the
\* tokenization of the sentence throughout, and the scan ends with the
\* cursor equal to len(tokens), every token consumed.
C10_CursorScan ==
    /\ (pc \in {"scan", "print"} \/ Raised)
          => i \in 0..Len(tokens) /\ tokens = TOKEN_RE_findall(sentence)
    /\ CallOver => i = Len(tokens)

====
